---- MODULE Spec2Model ----
(***************************************************************************)
(* Run bookkeeping of WeiboSpider: the three scheduled scripts             *)
(*   keyword_rename_and_log_output.py      (collection run)                *)
(*   determine_groups_generate_id_list.py  (tracking-selection run)        *)
(*   repost_rename_and_log_output.py       (tracking-publish run)          *)
(* acting on one Dropbox namespace and one local output directory.         *)
(*                                                                         *)
(* A run is single-threaded and runs to completion, so each script is one  *)
(* action; all readings of the clock inside one run return the same        *)
(* instant.  Text is modelled by what produced it: Dec(n) is str(n),       *)
(* Lines(s) is "\n".join(s), Json(v) is json.dumps(v), Stamp(s) is the     *)
(* strftime text of second s.                                              *)
(*                                                                         *)
(* Spec       : the store answers every request (a path is found or not).  *)
(* SpecConcurrent : two runs side by side, one store request per step.     *)
(* SpecStatus : record_group_tracking_status applied once to an enumerated *)
(*              status table and collection log (SpecSelect, SpecCombine:  *)
(*              the same for get_groups_to_track and                       *)
(*              combine_posts_from_groups).                                *)
(* SpecSpider : one crawl of the repost or the comment spider; the remote  *)
(*              service chooses each response.                             *)
(* SpecFaulty : in addition, in MaxFaults runs the requests of one kind on  *)
(*              one path fail: a read or write ends in the ApiError the    *)
(*              helpers catch, an upload raises.                           *)
(***************************************************************************)
EXTENDS Integers, Sequences, FiniteSets, TLC

\* ------------------------------------------------------------------ bounds
MaxRuns == 4            \* scripts run in one behaviour
MaxTicks == 1           \* advances of the clock in one behaviour
TicksPerSecond == 2     \* resolution of the clock below strftime's second
MaxFaults == 1          \* runs that meet a failing store request (SpecFaulty)
MaxLogLen == 2          \* entries of an enumerated collection log (SpecSelect)
MaxLines == 2           \* lines of an enumerated raw file (SpecCombine)
MaxListed == 3          \* names in an enumerated files_to_track (SpecCombine)
MaxPages == 3           \* pages for which the remote service has data (SpecSpider)

\* ------------------------------------------------------- program constants
tracking_window_hours == 48
SecondsPerHour == 3600

\* ------------------------------------------------------------ Dropbox paths
group_number_file == "/Dissertation/weibo_data/records_and_logs/group_number.txt"
keyword_output_log_file == "/Dissertation/weibo_data/records_and_logs/keyword_output_log.json"
keyword_error_log_file == "/Dissertation/weibo_data/records_and_logs/keyword_error_log.json"
groups_to_track_file == "/Dissertation/weibo_data/records_and_logs/groups_to_track.txt"
group_range_file == "/Dissertation/weibo_data/records_and_logs/group_number_range.txt"
combined_post_ids_file == "/Dissertation/weibo_data/records_and_logs/combined_post_ids.txt"
tracking_log_file == "/Dissertation/weibo_data/records_and_logs/repost_output_log.json"
group_status_log_file == "/Dissertation/weibo_data/records_and_logs/repost_group_tracking_status.json"
repost_error_log_file == "/Dissertation/weibo_data/records_and_logs/repost_error_log.json"
keyword_output_dir == "/Dissertation/weibo_data/keyword_output/"
repost_output_dir == "/Dissertation/weibo_data/repost_output/"

Paths ==
    { group_number_file, keyword_output_log_file, keyword_error_log_file,
      groups_to_track_file, group_range_file, combined_post_ids_file,
      tracking_log_file, group_status_log_file, repost_error_log_file }

\* ------------------------------------------------------------ Python values
None == [none |-> TRUE]
NotFound == [not_found |-> TRUE]

Dec(n) == [dec |-> n]
int(s) == s.dec
Lines(s) == [lines |-> s]
splitlines(c) == c.lines
Json(v) == [json |-> v]
json_loads(c) == c.json
\* json.loads raises JSONDecodeError on a text that is no JSON document
is_json(c) == "json" \in DOMAIN c
json_dumps(v) == Json(v)
Stamp(sec) == [stamp |-> sec]
Unknown == [unknown |-> TRUE]

\* `if content:` : None and the empty string are false
Truthy(c) == c # None /\ c # Lines(<<>>)

\* datetime.now().strftime("%Y-%m-%d-%H-%M-%S") drops what is below the second
strftime(t) == Stamp(t \div TicksPerSecond)
\* datetime.strptime(s, "%Y-%m-%d-%H-%M-%S") is the start of that second
strptime(s) == s.stamp * TicksPerSecond

\* ------------------------------------------------------------------- state
VARIABLES
    dbx,             \* Dropbox: fixed path -> content or NotFound
    keyword_output,  \* Dropbox directory keyword_output/: set of [name, content]
    repost_output,   \* Dropbox directory repost_output/: set of [name, content]
    output_dir,      \* local directory ../output/: set of [name, content]
    clock,           \* the process clock, in ticks
    faults_left,     \* runs that may still meet a failing store request
    ticks,           \* clock advances so far
    runs,            \* scripts run so far
    issued,          \* every number get_group_number returned, in order
    lastRun,         \* what the most recent script did and returned
    procs,           \* the runs in progress side by side: position and locals
    scheduler        \* the crawl: requests awaiting their response, and its record

vars == << dbx, keyword_output, repost_output, output_dir, clock, faults_left,
           ticks, runs, issued, lastRun, procs, scheduler >>

\* ------------------------------------------------------------- store faults
\* the requests each script makes, by kind and path
CollectionRequests ==
    ({"read", "write"} \X {group_number_file, keyword_output_log_file,
                           keyword_error_log_file})
        \cup {<<"upload", keyword_output_dir>>}
SelectionRequests ==
    { <<"read", keyword_output_log_file>>, <<"write", groups_to_track_file>>,
      <<"write", group_range_file>>, <<"read", keyword_output_dir>>,
      <<"write", combined_post_ids_file>> }
PublishRequests ==
    ({"read", "write"} \X {repost_error_log_file, tracking_log_file,
                           group_status_log_file})
        \cup { <<"read", group_range_file>>, <<"read", keyword_output_log_file>>,
               <<"upload", repost_output_dir>> }

\* the requests that fail in one run: none, or those of one kind on one path
\* while the behaviour's budget lasts
FaultSets(requests) ==
    {{}} \cup (IF faults_left > 0 THEN {{p} : p \in requests} ELSE {})

\* ------------------------------------------------------------ store helpers
\* files_download raises ApiError for a path that is not there (and, in F,
\* for one that is): the helper returns None
read_file_from_dropbox(d, F, file_path) ==
    IF d[file_path] = NotFound \/ <<"read", file_path>> \in F
    THEN None
    ELSE d[file_path]

read_file_form_dropbox(d, F, file_path) == read_file_from_dropbox(d, F, file_path)

\* files_upload in overwrite mode; an ApiError is printed and dropped
write_file_to_dropbox(d, F, file_path, content) ==
    IF <<"write", file_path>> \in F
    THEN d
    ELSE [d EXCEPT ![file_path] = content]

\* a directory with the file `name` created or overwritten
PutFile(dir, name, content) ==
    {f \in dir : f.name # name} \cup {[name |-> name, content |-> content]}

\* os.rename(src, dst): dst is replaced when it exists
os_rename(dir, src, dst) ==
    LET f == CHOOSE g \in dir : g.name = src
    IN  PutFile({g \in dir : g.name # src}, dst, f.content)

\* --------------------------------------------------------------- file names
\* f"{time}_group_{n}.jsonl" and f"{time}_group_{first}_group_{last}.jsonl"
FileName(time, groups) == [time |-> time, groups |-> groups, ext |-> ".jsonl"]
\* the text "None" that a failed collection run logs as file_name
StrNone == [time |-> None, groups |-> <<>>, ext |-> ""]
\* the crawler's own output file
SpiderFile == [time |-> None, groups |-> <<>>, ext |-> ".jsonl"]

endswith_jsonl(name) == name.ext = ".jsonl"

\* what `for filename in os.listdir(dir): if filename.endswith('.jsonl')` can
\* meet first: any candidate (listing order is arbitrary), or none
NoFile == [name |-> None, content |-> <<>>]
FirstCandidate(dir) ==
    LET c == {f \in dir : endswith_jsonl(f.name)}
    IN  IF c = {} THEN {NoFile} ELSE c

\* ------------------------------------------------- keyword script functions
\* mutant: the counter advances by two
get_group_number_by_two(d, F) ==
    LET content == read_file_form_dropbox(d, F, group_number_file)
        last_group_number == IF Truthy(content) THEN int(content) ELSE 0
        group_number == last_group_number + 2
    IN  [dbx |-> write_file_to_dropbox(d, F, group_number_file, Dec(group_number)),
         ret |-> group_number]

\* mutant: the new number is returned and not written back
get_group_number_unwritten(d, F) ==
    LET content == read_file_form_dropbox(d, F, group_number_file)
        last_group_number == IF Truthy(content) THEN int(content) ELSE 0
    IN  [dbx |-> d, ret |-> last_group_number + 1]

get_group_number(d, F) ==
    LET content == read_file_form_dropbox(d, F, group_number_file)
        last_group_number == IF Truthy(content) THEN int(content) ELSE 0
        group_number == last_group_number + 1
    IN  [dbx |-> write_file_to_dropbox(d, F, group_number_file, Dec(group_number)),
         ret |-> group_number]

\* mutant: the stored entries are not read back before the write
update_log_overwriting(d, F, log_data, output_log_file) ==
    write_file_to_dropbox(d, F, output_log_file, json_dumps(<<log_data>>))

\* mutant: the new entry goes in front of the stored ones
update_log_prepending(d, F, log_data, output_log_file) ==
    LET content == read_file_form_dropbox(d, F, output_log_file)
        data == IF Truthy(content) THEN json_loads(content) ELSE <<>>
    IN  write_file_to_dropbox(d, F, output_log_file,
                              json_dumps(<<log_data>> \o data))

update_log(d, F, log_data, output_log_file) ==
    LET content == read_file_form_dropbox(d, F, output_log_file)
        data == IF Truthy(content) THEN json_loads(content) ELSE <<>>
    IN  write_file_to_dropbox(d, F, output_log_file,
                              json_dumps(Append(data, log_data)))

keyword_log_error(d, F, now, error_message, error_log_file) ==
    LET content == read_file_form_dropbox(d, F, error_log_file)
        data == IF Truthy(content) THEN json_loads(content) ELSE <<>>
        error_data == [time |-> strftime(now), error |-> error_message]
    IN  write_file_to_dropbox(d, F, error_log_file,
                              json_dumps(Append(data, error_data)))

\* the two shapes rename_output_file returns: the tuple (None, False), a name
NoneFalse == [tuple |-> <<None, FALSE>>]
Str(name) == [str |-> name]

\* upload_file_to_dropbox: files_upload outside any try, so a failure raises
upload_raises(F, dropbox_dir) == <<"upload", dropbox_dir>> \in F

\* rename_output_file of keyword_rename_and_log_output.py; `first` is the
\* directory entry the loop meets first (NoFile: none ends in .jsonl)
keyword_rename_output_file(d, kout, dir, F, now, group_number, first) ==
    LET formatted_time == strftime(now)
        data_file_name == FileName(formatted_time, <<Dec(group_number)>>)
        found_file == first # NoFile
        renamed == IF found_file THEN os_rename(dir, first.name, data_file_name)
                   ELSE dir
        log_data == [file_name |-> IF found_file THEN data_file_name ELSE StrNone,
                     creation_time |-> formatted_time,
                     group_number |-> group_number,
                     success |-> found_file]
        logged == update_log(d, F, log_data, keyword_output_log_file)
        error_message == [text |-> "No output file found for group",
                          groups |-> <<Dec(group_number)>>]
    IN  IF found_file /\ upload_raises(F, keyword_output_dir)
        THEN [raised |-> TRUE, dbx |-> d, keyword_output |-> kout,
              output_dir |-> renamed, ret |-> None]
        ELSE IF ~found_file
        THEN [raised |-> FALSE,
              dbx |-> keyword_log_error(logged, F, now, error_message,
                                        keyword_error_log_file),
              keyword_output |-> kout, output_dir |-> dir,
              ret |-> NoneFalse]
        ELSE [raised |-> FALSE, dbx |-> logged,
              keyword_output |-> PutFile(kout, data_file_name, first.content),
              output_dir |-> renamed, ret |-> Str(data_file_name)]

\* ------------------------------------------------ selection script functions
\* mutant: the window's far end is left out
InWindow_open(now, creation_time, window_hours) ==
    LET age == now - strptime(creation_time)
    IN  0 <= age /\ age < window_hours * SecondsPerHour * TicksPerSecond

\* 0 <= (current_time - creation_time).total_seconds() / 3600 <= window
InWindow(now, creation_time, window_hours) ==
    LET age == now - strptime(creation_time)
    IN  0 <= age /\ age <= window_hours * SecondsPerHour * TicksPerSecond

\* mutant: each selected entry is put in front of the ones before it
get_groups_to_track_newest_first(d, F, now, tracking_window) ==
    LET log_file == read_file_from_dropbox(d, F, keyword_output_log_file)
        log_data == json_loads(log_file)
        selected == SelectSeq(log_data,
                        LAMBDA entry : InWindow(now, entry.creation_time,
                                                tracking_window))
        groups_to_track ==
            [i \in 1..Len(selected) |-> selected[Len(selected) + 1 - i].file_name]
        group_range ==
            [i \in 1..Len(selected) |-> selected[Len(selected) + 1 - i].group_number]
        groups_content == Lines(groups_to_track)
        group_range_content ==
            Lines([i \in 1..Len(group_range) |-> Dec(group_range[i])])
    IN  IF log_file = None
        THEN [raised |-> FALSE, dbx |-> d, ret |-> << <<>>, <<>> >>]
        ELSE IF ~is_json(log_file)
        THEN [raised |-> TRUE, dbx |-> d, ret |-> << <<>>, <<>> >>]
        ELSE [raised |-> FALSE,
              dbx |-> write_file_to_dropbox(
                          write_file_to_dropbox(d, F, groups_to_track_file,
                                                groups_content),
                          F, group_range_file, group_range_content),
              ret |-> <<groups_to_track, group_range>>]

get_groups_to_track(d, F, now, tracking_window) ==
    LET log_file == read_file_from_dropbox(d, F, keyword_output_log_file)
        log_data == json_loads(log_file)
        selected == SelectSeq(log_data,
                        LAMBDA entry : InWindow(now, entry.creation_time,
                                                tracking_window))
        groups_to_track == [i \in 1..Len(selected) |-> selected[i].file_name]
        group_range == [i \in 1..Len(selected) |-> selected[i].group_number]
        groups_content == Lines(groups_to_track)
        group_range_content ==
            Lines([i \in 1..Len(group_range) |-> Dec(group_range[i])])
    IN  IF log_file = None
        THEN [raised |-> FALSE, dbx |-> d, ret |-> << <<>>, <<>> >>]
        ELSE IF ~is_json(log_file)
        THEN [raised |-> TRUE, dbx |-> d, ret |-> << <<>>, <<>> >>]
        ELSE [raised |-> FALSE,
              dbx |-> write_file_to_dropbox(
                          write_file_to_dropbox(d, F, groups_to_track_file,
                                                groups_content),
                          F, group_range_file, group_range_content),
              ret |-> <<groups_to_track, group_range>>]

\* one line of a raw output file
Rec(id) == [kind |-> "record", mblogid |-> id]
Garbage == [kind |-> "garbage", mblogid |-> ""]   \* json.loads raises JSONDecodeError
NoKey == [kind |-> "nokey", mblogid |-> ""]       \* valid JSON without 'mblogid'

\* read_file_from_dropbox on os.path.join(base_directory, file_name)
read_data_file(kout, F, file_name) ==
    IF (\A f \in kout : f.name # file_name) \/ <<"read", keyword_output_dir>> \in F
    THEN None
    ELSE (CHOOSE f \in kout : f.name = file_name).content

\* the loop over the lines of one file; acc = [raised, ids]
RECURSIVE add_lines(_, _, _)
add_lines(acc, lines, i) ==
    IF i > Len(lines) \/ acc.raised THEN acc
    ELSE add_lines(
            IF lines[i].kind = "garbage" THEN acc
            ELSE IF lines[i].kind = "nokey" THEN [acc EXCEPT !.raised = TRUE]
            ELSE [acc EXCEPT !.ids = @ \cup {lines[i].mblogid}],
            lines, i + 1)

\* mutant: a file that cannot be read ends the loop
RECURSIVE combine_from_break(_, _, _, _, _)
combine_from_break(acc, kout, F, files_to_track, k) ==
    IF k > Len(files_to_track) \/ acc.raised THEN acc
    ELSE LET file_content == read_data_file(kout, F, files_to_track[k])
         IN  IF file_content = None THEN acc
             ELSE combine_from_break(add_lines(acc, splitlines(file_content), 1),
                                     kout, F, files_to_track, k + 1)

\* the loop over the files
RECURSIVE combine_from(_, _, _, _, _)
combine_from(acc, kout, F, files_to_track, k) ==
    IF k > Len(files_to_track) \/ acc.raised THEN acc
    ELSE LET file_content == read_data_file(kout, F, files_to_track[k])
         IN  combine_from(
                 IF file_content = None THEN acc
                 ELSE add_lines(acc, splitlines(file_content), 1),
                 kout, F, files_to_track, k + 1)

\* unique_ids when the function returns (raised: a KeyError left it)
combine_posts_from_groups(kout, F, files_to_track) ==
    combine_from([raised |-> FALSE, ids |-> {}], kout, F, files_to_track, 1)

\* list(unique_ids): the elements of the set once each, in any order
RECURSIVE list(_)
list(S) ==
    IF S = {} THEN {<<>>}
    ELSE UNION {{<<x>> \o t : t \in list(S \ {x})} : x \in S}

save_post_ids_to_file(d, F, combined_post_ids) ==
    write_file_to_dropbox(d, F, combined_post_ids_file, Lines(combined_post_ids))

\* -------------------------------------------------- repost script functions
\* mutant: the error is printed and not stored
repost_log_error_dropped(d, F, now, error_message, error_log_file) == d

repost_log_error(d, F, now, error_message, error_log_file) ==
    LET error_data == [time |-> strftime(now), error |-> error_message]
        content == read_file_from_dropbox(d, F, error_log_file)
        data == IF Truthy(content) THEN json_loads(content) ELSE <<>>
    IN  write_file_to_dropbox(d, F, error_log_file,
                              json_dumps(Append(data, error_data)))

\* mutant: the last group is taken from the first line too
repost_rename_output_file_first_twice(d, rout, dir, F, now, first) ==
    LET creation_time == strftime(now)
        group_range_content == read_file_from_dropbox(d, F, group_range_file)
        group_numbers == splitlines(group_range_content)
        first_group == group_numbers[1]
        last_group == group_numbers[1]
        new_file_name == FileName(creation_time, <<first_group, last_group>>)
        found_file == first # NoFile
        error_message == [text |-> "No output file found for group to group at",
                          groups |-> <<first_group, last_group>>,
                          at |-> creation_time]
        same == [raised |-> FALSE, dbx |-> d, repost_output |-> rout,
                 output_dir |-> dir, ret |-> <<None, FALSE>>]
    IN  IF group_range_content = None THEN same
        ELSE IF group_numbers = <<>> THEN [same EXCEPT !.raised = TRUE]
        ELSE IF ~found_file
        THEN [same EXCEPT !.dbx = repost_log_error(d, F, now, error_message,
                                                   repost_error_log_file)]
        ELSE IF upload_raises(F, repost_output_dir)
        THEN [same EXCEPT !.raised = TRUE,
                          !.output_dir = os_rename(dir, first.name, new_file_name)]
        ELSE [same EXCEPT !.repost_output = PutFile(rout, new_file_name, first.content),
                          !.output_dir = os_rename(dir, first.name, new_file_name),
                          !.ret = <<new_file_name, TRUE>>]

\* rename_output_file of repost_rename_and_log_output.py; raised is the
\* IndexError of group_numbers[0] on an empty list, or a failed upload
repost_rename_output_file(d, rout, dir, F, now, first) ==
    LET creation_time == strftime(now)
        group_range_content == read_file_from_dropbox(d, F, group_range_file)
        group_numbers == splitlines(group_range_content)
        first_group == group_numbers[1]
        last_group == group_numbers[Len(group_numbers)]
        new_file_name == FileName(creation_time, <<first_group, last_group>>)
        found_file == first # NoFile
        error_message == [text |-> "No output file found for group to group at",
                          groups |-> <<first_group, last_group>>,
                          at |-> creation_time]
        same == [raised |-> FALSE, dbx |-> d, repost_output |-> rout,
                 output_dir |-> dir, ret |-> <<None, FALSE>>]
    IN  IF group_range_content = None THEN same
        ELSE IF group_numbers = <<>> THEN [same EXCEPT !.raised = TRUE]
        ELSE IF ~found_file
        THEN [same EXCEPT !.dbx = repost_log_error(d, F, now, error_message,
                                                   repost_error_log_file)]
        ELSE IF upload_raises(F, repost_output_dir)
        THEN [same EXCEPT !.raised = TRUE,
                          !.output_dir = os_rename(dir, first.name, new_file_name)]
        ELSE [same EXCEPT !.repost_output = PutFile(rout, new_file_name, first.content),
                          !.output_dir = os_rename(dir, first.name, new_file_name),
                          !.ret = <<new_file_name, TRUE>>]

\* ", ".join(group_numbers)
Joined(group_numbers) == [joined |-> group_numbers, sep |-> ", "]

record_tracking(d, F, filename, creation_time, group_numbers, log_file, success) ==
    LET tracking_data == [filename |-> filename,
                          creation_time |-> creation_time,
                          groups_in_it |-> Joined(group_numbers),
                          success |-> success]
        content == read_file_from_dropbox(d, F, log_file)
        data == IF Truthy(content) THEN json_loads(content) ELSE <<>>
    IN  write_file_to_dropbox(d, F, log_file, json_dumps(Append(data, tracking_data)))

\* the position of the first entry of s with that group number, 0 if none
FirstIndex(s, group_number) ==
    IF \E i \in 1..Len(s) : s[i].group_number = group_number
    THEN CHOOSE i \in 1..Len(s) :
            /\ s[i].group_number = group_number
            /\ \A j \in 1..(i - 1) : s[j].group_number # group_number
    ELSE 0

get_original_creation_time(d, F, group_number) ==
    LET content == read_file_from_dropbox(d, F, keyword_output_log_file)
        log_data == json_loads(content)
        i == FirstIndex(log_data, group_number)
    IN  IF content = None THEN Unknown
        ELSE IF i # 0 THEN log_data[i].creation_time
        ELSE Unknown

\* mutant: an existing entry gets its new last_tracked and keeps its count
record_group_tracking_status_no_count(d, F, now, group_number) ==
    LET original_creation_time == get_original_creation_time(d, F, group_number)
        content == read_file_from_dropbox(d, F, group_status_log_file)
        tracking_status == IF Truthy(content) THEN json_loads(content) ELSE <<>>
        i == FirstIndex(tracking_status, group_number)
        updated ==
            IF i # 0
            THEN [tracking_status EXCEPT ![i] = [@ EXCEPT !.last_tracked = strftime(now)]]
            ELSE Append(tracking_status,
                        [group_number |-> group_number,
                         original_creation_time |-> original_creation_time,
                         tracked_times |-> 1,
                         last_tracked |-> strftime(now)])
    IN  write_file_to_dropbox(d, F, group_status_log_file, json_dumps(updated))

\* mutant: an existing entry is counted and keeps its first last_tracked
record_group_tracking_status_first_time(d, F, now, group_number) ==
    LET original_creation_time == get_original_creation_time(d, F, group_number)
        content == read_file_from_dropbox(d, F, group_status_log_file)
        tracking_status == IF Truthy(content) THEN json_loads(content) ELSE <<>>
        i == FirstIndex(tracking_status, group_number)
        updated ==
            IF i # 0
            THEN [tracking_status EXCEPT ![i] = [@ EXCEPT !.tracked_times = @ + 1]]
            ELSE Append(tracking_status,
                        [group_number |-> group_number,
                         original_creation_time |-> original_creation_time,
                         tracked_times |-> 1,
                         last_tracked |-> strftime(now)])
    IN  write_file_to_dropbox(d, F, group_status_log_file, json_dumps(updated))

\* mutant: the entry of the group is not looked up, a new one is appended
record_group_tracking_status_appending(d, F, now, group_number) ==
    LET original_creation_time == get_original_creation_time(d, F, group_number)
        content == read_file_from_dropbox(d, F, group_status_log_file)
        tracking_status == IF Truthy(content) THEN json_loads(content) ELSE <<>>
        updated == Append(tracking_status,
                          [group_number |-> group_number,
                           original_creation_time |-> original_creation_time,
                           tracked_times |-> 1,
                           last_tracked |-> strftime(now)])
    IN  write_file_to_dropbox(d, F, group_status_log_file, json_dumps(updated))

\* mutant: original_creation_time is looked up again on every call
record_group_tracking_status_relooked(d, F, now, group_number) ==
    LET original_creation_time == get_original_creation_time(d, F, group_number)
        content == read_file_from_dropbox(d, F, group_status_log_file)
        tracking_status == IF Truthy(content) THEN json_loads(content) ELSE <<>>
        i == FirstIndex(tracking_status, group_number)
        updated ==
            IF i # 0
            THEN [tracking_status EXCEPT
                     ![i] = [@ EXCEPT !.tracked_times = @ + 1,
                                      !.original_creation_time = strftime(now),
                                      !.last_tracked = strftime(now)]]
            ELSE Append(tracking_status,
                        [group_number |-> group_number,
                         original_creation_time |-> original_creation_time,
                         tracked_times |-> 1,
                         last_tracked |-> strftime(now)])
    IN  write_file_to_dropbox(d, F, group_status_log_file, json_dumps(updated))

record_group_tracking_status(d, F, now, group_number) ==
    LET original_creation_time == get_original_creation_time(d, F, group_number)
        content == read_file_from_dropbox(d, F, group_status_log_file)
        tracking_status == IF Truthy(content) THEN json_loads(content) ELSE <<>>
        i == FirstIndex(tracking_status, group_number)
        updated ==
            IF i # 0
            THEN [tracking_status EXCEPT
                     ![i] = [@ EXCEPT !.tracked_times = @ + 1,
                                      !.last_tracked = strftime(now)]]
            ELSE Append(tracking_status,
                        [group_number |-> group_number,
                         original_creation_time |-> original_creation_time,
                         tracked_times |-> 1,
                         last_tracked |-> strftime(now)])
    IN  write_file_to_dropbox(d, F, group_status_log_file, json_dumps(updated))

\* `for group_number in group_numbers: record_group_tracking_status(...)`
RECURSIVE record_each(_, _, _, _, _)
record_each(d, F, now, group_numbers, k) ==
    IF k > Len(group_numbers) THEN d
    ELSE record_each(record_group_tracking_status(d, F, now, int(group_numbers[k])),
                     F, now, group_numbers, k + 1)

\* mutant: the groups are counted only when a file was published
log_counting_on_success(d, F, now, new_file_name, success) ==
    LET creation_time == strftime(now)
        group_range_content == read_file_from_dropbox(d, F, group_range_file)
        group_numbers == splitlines(group_range_content)
        tracked == record_tracking(d, F, new_file_name, creation_time,
                                   group_numbers, tracking_log_file, success)
    IN  IF group_range_content = None THEN d
        ELSE IF success THEN record_each(tracked, F, now, group_numbers, 1)
        ELSE tracked

\* log(dbx, new_file_name); success is the script's global of that name
log(d, F, now, new_file_name, success) ==
    LET creation_time == strftime(now)
        group_range_content == read_file_from_dropbox(d, F, group_range_file)
        group_numbers == splitlines(group_range_content)
    IN  IF group_range_content = None THEN d
        ELSE record_each(
                 record_tracking(d, F, new_file_name, creation_time,
                                 group_numbers, tracking_log_file, success),
                 F, now, group_numbers, 1)

\* ------------------------------------------------------------- the spiders
\* spiders/repost.py and spiders/comment.py.  A Request is what a callback
\* yields to the crawler; the crawler downloads it and calls the callback on
\* the response, which carries the request's url and meta.
Request(url, callback, meta) == [url |-> url, callback |-> callback, meta |-> meta]

Response(request, text) ==
    [url |-> request.url, text |-> text, meta |-> request.meta]

\* url_to_mid of spiders.common, as the spiders call it: the numeric id that
\* stands for a post id in the request
url_to_mid(tweet_id) == [mid |-> tweet_id]

\* f".../ajax/statuses/repostTimeline?id={mid}&page={page_num}&moduleID=feed&count=10"
repostTimeline(mid, page_num) ==
    [api |-> "repostTimeline", id |-> mid, page |-> page_num, max_id |-> <<>>]

\* f".../ajax/statuses/buildComments?is_reload=1&id={mid}&is_show_bulletin=2&is_mix=0&count=20"
buildComments(mid) ==
    [api |-> "buildComments", id |-> mid, page |-> 0, max_id |-> <<>>]

\* url + '&max_id=' + str(max_id): one more parameter at the end of the text
add_max_id(url, max_id) == [url EXCEPT !.max_id = Append(@, Dec(max_id))]

\* a body that json.loads rejects, and a JSON object without 'data'
NotJsonBody == [html |-> "login"]
NoDataBody == Json([ok |-> 0])

\* what start_requests and parse give back: the requests they yield, in
\* order, unless an exception ends the generator
Yielded(requests) == [raised |-> FALSE, requests |-> requests]
Raised == [raised |-> TRUE, requests |-> <<>>]

\* RepostSpider.start_requests: files_download raises for a path that is not
\* there
repost_start_requests(d) ==
    LET tweet_ids == splitlines(d[combined_post_ids_file])
    IN  IF d[combined_post_ids_file] = NotFound THEN Raised
        ELSE Yielded([i \in 1..Len(tweet_ids) |->
                Request(repostTimeline(url_to_mid(tweet_ids[i]), 1), "parse",
                        [page_num |-> 1, mid |-> url_to_mid(tweet_ids[i]),
                         original_tweet_id |-> tweet_ids[i]])])

\* RepostSpider.parse; the items it yields go to the feed and are left out
repost_parse(response) ==
    LET data == json_loads(response.text)
        page_num == response.meta.page_num + 1
    IN  IF ~is_json(response.text) THEN Raised
        ELSE IF "data" \notin DOMAIN data THEN Raised
        ELSE IF data.data # <<>>
        THEN Yielded(<<Request(repostTimeline(response.meta.mid, page_num), "parse",
                               [page_num |-> page_num, mid |-> response.meta.mid,
                                original_tweet_id |->
                                    response.meta.original_tweet_id])>>)
        ELSE Yielded(<<>>)

\* CommentSpider.start_requests
comment_start_requests(d) ==
    LET tweet_ids == splitlines(d[combined_post_ids_file])
    IN  IF d[combined_post_ids_file] = NotFound THEN Raised
        ELSE Yielded([i \in 1..Len(tweet_ids) |->
                Request(buildComments(url_to_mid(tweet_ids[i])), "parse",
                        [source_url |-> buildComments(url_to_mid(tweet_ids[i])),
                         original_tweet_id |-> tweet_ids[i]])])

\* mutant: the parameter is added to the url of the page just parsed
comment_parse_accumulating(response) ==
    LET data == json_loads(response.text)
    IN  IF ~is_json(response.text) THEN Raised
        ELSE IF "data" \notin DOMAIN data THEN Raised
        ELSE IF "max_id" \in DOMAIN data /\ data.max_id # 0
        THEN Yielded(<<Request(add_max_id(response.url, data.max_id),
                               "parse", response.meta)>>)
        ELSE Yielded(<<>>)

\* CommentSpider.parse: data['data'] is read before data.get('max_id', 0)
comment_parse(response) ==
    LET data == json_loads(response.text)
    IN  IF ~is_json(response.text) THEN Raised
        ELSE IF "data" \notin DOMAIN data THEN Raised
        ELSE IF "max_id" \in DOMAIN data /\ data.max_id # 0
        THEN Yielded(<<Request(add_max_id(response.meta.source_url, data.max_id),
                               "parse", response.meta)>>)
        ELSE Yielded(<<>>)

\* no crawl is going on
NoCrawl == [spider |-> "none"]

\* ---------------------------------------------------------------- the runs
NoRun == [kind |-> "none"]

\* what the crawler may leave in a raw output file
OutputContents ==
    { <<Rec("x"), Rec("y")>>, <<Rec("y")>> }

ClockSteps == {1, tracking_window_hours * SecondsPerHour * TicksPerSecond + 1}

Init ==
    /\ dbx = [p \in Paths |-> NotFound]
    /\ keyword_output = {}
    /\ repost_output = {}
    /\ output_dir = {}
    /\ clock = 0
    /\ faults_left = 0
    /\ ticks = 0
    /\ runs = 0
    /\ issued = <<>>
    /\ lastRun = NoRun
    /\ procs = <<>>
    /\ scheduler = NoCrawl

InitFaulty ==
    /\ dbx = [p \in Paths |-> NotFound]
    /\ keyword_output = {}
    /\ repost_output = {}
    /\ output_dir = {}
    /\ clock = 0
    /\ faults_left = MaxFaults
    /\ ticks = 0
    /\ runs = 0
    /\ issued = <<>>
    /\ lastRun = NoRun
    /\ procs = <<>>
    /\ scheduler = NoCrawl

\* time passes
Tick ==
    /\ ticks < MaxTicks
    /\ \E step \in ClockSteps : clock' = clock + step
    /\ ticks' = ticks + 1
    /\ UNCHANGED << dbx, keyword_output, repost_output, output_dir, faults_left,
                    runs, issued, lastRun, procs, scheduler >>

\* the crawler writes its output file into ../output/
SpiderOutput ==
    /\ \A f \in output_dir : f.name # SpiderFile
    /\ \E c \in OutputContents :
          output_dir' = PutFile(output_dir, SpiderFile, Lines(c))
    /\ UNCHANGED << dbx, keyword_output, repost_output, clock, faults_left, ticks,
                    runs, issued, lastRun, procs, scheduler >>

\* the next job starts on a fresh checkout
CleanOutputDir ==
    /\ output_dir # {}
    /\ output_dir' = {}
    /\ UNCHANGED << dbx, keyword_output, repost_output, clock, faults_left, ticks,
                    runs, issued, lastRun, procs, scheduler >>

\* keyword_rename_and_log_output.py, __main__
CollectionRun ==
    /\ runs < MaxRuns
    /\ \E F \in FaultSets(CollectionRequests), first \in FirstCandidate(output_dir) :
        LET g == get_group_number(dbx, F)
            r == keyword_rename_output_file(g.dbx, keyword_output, output_dir,
                                            F, clock, g.ret, first)
        IN  /\ dbx' = r.dbx
            /\ keyword_output' = r.keyword_output
            /\ output_dir' = r.output_dir
            /\ issued' = Append(issued, g.ret)
            /\ lastRun' = [kind |-> "collection", raised |-> r.raised,
                           group_number |-> g.ret, ret |-> r.ret]
            /\ faults_left' = IF F = {} THEN faults_left ELSE faults_left - 1
    /\ runs' = runs + 1
    /\ UNCHANGED << repost_output, clock, ticks, procs, scheduler >>

\* determine_groups_generate_id_list.py, __main__
SelectionRun ==
    /\ runs < MaxRuns
    /\ \E F \in FaultSets(SelectionRequests) :
        LET s == get_groups_to_track(dbx, F, clock, tracking_window_hours)
            c == IF s.raised THEN [raised |-> TRUE, ids |-> {}]
                 ELSE combine_posts_from_groups(keyword_output, F, s.ret[1])
        IN  \E combined_post_ids \in list(c.ids) :
              /\ dbx' = IF c.raised THEN s.dbx
                        ELSE save_post_ids_to_file(s.dbx, F, combined_post_ids)
              /\ lastRun' = [kind |-> "selection", raised |-> c.raised,
                             files_to_track |-> s.ret[1], group_range |-> s.ret[2],
                             combined_post_ids |-> combined_post_ids]
              /\ faults_left' = IF F = {} THEN faults_left ELSE faults_left - 1
    /\ runs' = runs + 1
    /\ UNCHANGED << keyword_output, repost_output, output_dir, clock, ticks,
                    issued, procs, scheduler >>

\* repost_rename_and_log_output.py, __main__
PublishRun ==
    /\ runs < MaxRuns
    /\ \E F \in FaultSets(PublishRequests), first \in FirstCandidate(output_dir) :
        LET r == repost_rename_output_file(dbx, repost_output, output_dir, F,
                                           clock, first)
            new_file_name == r.ret[1]
            success == r.ret[2]
        IN  /\ dbx' = IF r.raised THEN r.dbx
                      ELSE log(r.dbx, F, clock, new_file_name, success)
            /\ repost_output' = r.repost_output
            /\ output_dir' = r.output_dir
            /\ lastRun' = [kind |-> "publish", raised |-> r.raised,
                           new_file_name |-> new_file_name, success |-> success,
                           dbx_renamed |-> r.dbx]
            /\ faults_left' = IF F = {} THEN faults_left ELSE faults_left - 1
    /\ runs' = runs + 1
    /\ UNCHANGED << keyword_output, clock, ticks, issued, procs, scheduler >>

Next ==
    \/ Tick
    \/ SpiderOutput
    \/ CleanOutputDir
    \/ CollectionRun
    \/ SelectionRun
    \/ PublishRun

Spec == Init /\ [][Next]_vars

SpecFaulty == InitFaulty /\ [][Next]_vars

\* ------------------------------------------- get_groups_to_track on its own
\* the instant of the selection: just after the window's length, on the
\* second and past it
SelectBase == (tracking_window_hours + 1) * SecondsPerHour
SelectNows == {SelectBase * TicksPerSecond, SelectBase * TicksPerSecond + 1}

\* creation times around the instant and around both window lengths: in the
\* future, now, 12 h, 24 h and 48 h old, and a second older
HalfDay == tracking_window_hours \div 4
SelectWindows == {HalfDay, tracking_window_hours}
SelectStamps ==
    { SelectBase + 1, SelectBase,
      SelectBase - HalfDay * SecondsPerHour,
      SelectBase - HalfDay * SecondsPerHour - 1,
      SelectBase - 2 * HalfDay * SecondsPerHour,
      SelectBase - tracking_window_hours * SecondsPerHour,
      SelectBase - tracking_window_hours * SecondsPerHour - 1 }

\* collection logs of up to MaxLogLen entries, entry i for group i
SelectLogs ==
    UNION { { [i \in 1..n |->
                 [file_name |-> FileName(Stamp(t[i]), <<Dec(i)>>),
                  creation_time |-> Stamp(t[i]),
                  group_number |-> i,
                  success |-> TRUE]] : t \in [1..n -> SelectStamps] }
            : n \in 0..MaxLogLen }

\* a log that is not there, an empty file, a file holding no JSON
UnreadableLogs == {NotFound, Lines(<<>>), Lines(<<Garbage>>)}

InitSelect ==
    /\ \E content \in {json_dumps(log_data) : log_data \in SelectLogs}
                        \cup UnreadableLogs :
          dbx = [p \in Paths |->
                    IF p = keyword_output_log_file THEN content ELSE NotFound]
    /\ clock \in SelectNows
    /\ keyword_output = {}
    /\ repost_output = {}
    /\ output_dir = {}
    /\ faults_left = 0
    /\ ticks = 0
    /\ runs = 0
    /\ issued = <<>>
    /\ lastRun = NoRun
    /\ procs = <<>>
    /\ scheduler = NoCrawl

\* get_groups_to_track(dbx, tracking_window_hours = w), once per input
SelectStep ==
    /\ lastRun = NoRun
    /\ \E w \in SelectWindows :
        LET s == get_groups_to_track(dbx, {}, clock, w)
        IN  /\ dbx' = s.dbx
            /\ lastRun' = [kind |-> "select", window |-> w, raised |-> s.raised,
                           files_to_track |-> s.ret[1], group_range |-> s.ret[2]]
    /\ UNCHANGED << keyword_output, repost_output, output_dir, clock,
                    faults_left, ticks, runs, issued, procs, scheduler >>

NextSelect == SelectStep

SpecSelect == InitSelect /\ [][NextSelect]_vars

\* ------------------------------------- combine_posts_from_groups on its own
FileA == FileName(Stamp(0), <<Dec(1)>>)
FileB == FileName(Stamp(1), <<Dec(2)>>)

SeqsUpTo(S, n) == UNION { [1..k -> S] : k \in 0..n }

\* raw files of up to MaxLines lines: records, a line that is no JSON, a
\* JSON line without mblogid
ContentsA == SeqsUpTo({Rec("x"), Rec("y"), Garbage}, MaxLines)
ContentsB == SeqsUpTo({Rec("y"), Rec("z"), NoKey}, MaxLines)

InitCombine ==
    /\ \E a \in ContentsA, b \in ContentsB :
          keyword_output = { [name |-> FileA, content |-> Lines(a)],
                             [name |-> FileB, content |-> Lines(b)] }
    /\ dbx = [p \in Paths |-> NotFound]
    /\ repost_output = {}
    /\ output_dir = {}
    /\ clock = 0
    /\ faults_left = 0
    /\ ticks = 0
    /\ runs = 0
    /\ issued = <<>>
    /\ lastRun = NoRun
    /\ procs = <<>>
    /\ scheduler = NoCrawl

\* combine_posts_from_groups(dbx, files_to_track), once per directory, on a
\* list of up to MaxListed names (StrNone: no such file), with the directory
\* readable or not
CombineStep ==
    /\ lastRun = NoRun
    /\ \E files_to_track \in SeqsUpTo({FileA, FileB, StrNone}, MaxListed),
          F \in {{}, {<<"read", keyword_output_dir>>}} :
        LET c == combine_posts_from_groups(keyword_output, F, files_to_track)
        IN  \E ids \in list(c.ids) :
              lastRun' = [kind |-> "combine", files_to_track |-> files_to_track,
                          faults |-> F, raised |-> c.raised,
                          combined_post_ids |-> IF c.raised THEN <<>> ELSE ids]
    /\ UNCHANGED << dbx, keyword_output, repost_output, output_dir, clock,
                    faults_left, ticks, runs, issued, procs, scheduler >>

NextCombine == CombineStep

SpecCombine == InitCombine /\ [][NextCombine]_vars

\* --------------------------------------------- two runs in progress at once
\* Nothing in the scripts locks the store, so two runs started side by side
\* (each on its own runner, with its own ../output/) interleave at their
\* store requests.  A process is a collection run or a publish run; pc names
\* the function it is in and the request it makes next.
ProcIds == {1, 2}

Proc(kind, found) ==
    [kind |-> kind,
     found |-> found,             \* its ../output/ holds a .jsonl file
     pc |-> IF kind = "collection" THEN "get_group_number:read"
            ELSE "rename_output_file:read",
     seen |-> <<>>,               \* path -> what its last download returned
     written |-> {},              \* the paths it has uploaded to
     raced |-> {},                \* paths read while the other run was between
                                  \* its own read and write of the same path
     group_number |-> 0,
     group_numbers |-> <<>>,
     k |-> 1,
     new_file_name |-> None,
     success |-> FALSE,
     entry |-> None]              \* the run-log entry it appended

\* the store as process p has seen it: the paths it downloaded hold what the
\* download returned
Snapshot(d, seen) ==
    [x \in Paths |-> IF x \in DOMAIN seen THEN seen[x] ELSE d[x]]

\* files_upload of the one path a function writes
WriteBack(d, file_path, result) == [d EXCEPT ![file_path] = result[file_path]]

error_log_file(kind) ==
    IF kind = "collection" THEN keyword_error_log_file ELSE repost_error_log_file

\* the path a process is about to overwrite with what it computed from its read
WritePath(q) ==
    CASE q.pc = "get_group_number:write" -> group_number_file
      [] q.pc = "update_log:write" -> keyword_output_log_file
      [] q.pc = "log_error:write" -> error_log_file(q.kind)
      [] q.pc = "record_tracking:write" -> tracking_log_file
      [] q.pc = "record_group_tracking_status:write" -> group_status_log_file
      [] OTHER -> ""

\* files_download of file_path by process p, which goes on at next_pc
Download(p, file_path, next_pc) ==
    /\ procs' = [procs EXCEPT ![p] =
          [@ EXCEPT !.pc = next_pc,
                    !.seen = (file_path :> dbx[file_path]) @@ @,
                    !.raced = @ \cup
                        IF \E q \in ProcIds \ {p} : WritePath(procs[q]) = file_path
                        THEN {file_path} ELSE {}]]
    /\ UNCHANGED << dbx, keyword_output, repost_output, output_dir, clock,
                    faults_left, ticks, runs, issued, lastRun, scheduler >>

\* the stores two runs can start on: nothing yet, and what one collection run
\* and one selection run leave behind
FreshStore == [x \in Paths |-> NotFound]
CollectedStore ==
    LET g == get_group_number(FreshStore, {})
        file == [name |-> SpiderFile, content |-> Lines(<<Rec("x")>>)]
        r == keyword_rename_output_file(g.dbx, {}, {file}, {}, 0, g.ret, file)
    IN  get_groups_to_track(r.dbx, {}, 0, tracking_window_hours).dbx

InitConcurrent ==
    /\ dbx \in {FreshStore, CollectedStore}
    /\ procs \in [ProcIds -> { Proc(kind, found) :
                                 kind \in {"collection", "publish"},
                                 found \in BOOLEAN }]
    /\ scheduler = NoCrawl
    /\ keyword_output = {}
    /\ repost_output = {}
    /\ output_dir = {}
    /\ clock = 0
    /\ faults_left = 0
    /\ ticks = 0
    /\ runs = 0
    /\ issued = <<>>
    /\ lastRun = NoRun

\* get_group_number: content = read_file_form_dropbox(dbx, filename)
GetGroupNumberRead(p) ==
    /\ procs[p].pc = "get_group_number:read"
    /\ Download(p, group_number_file, "get_group_number:write")

\* get_group_number: write_file_to_dropbox(dbx, filename, str(group_number))
GetGroupNumberWrite(p) ==
    /\ procs[p].pc = "get_group_number:write"
    /\ LET g == get_group_number(Snapshot(dbx, procs[p].seen), {})
       IN  /\ dbx' = WriteBack(dbx, group_number_file, g.dbx)
           /\ issued' = Append(issued, g.ret)
           /\ procs' = [procs EXCEPT ![p] =
                 [@ EXCEPT !.pc = "rename_output_file:upload",
                           !.group_number = g.ret,
                           !.written = @ \cup {group_number_file}]]
    /\ UNCHANGED << keyword_output, repost_output, output_dir, clock,
                    faults_left, ticks, runs, lastRun, scheduler >>

\* keyword rename_output_file: the loop over the local directory
CollectionUpload(p) ==
    /\ procs[p].kind = "collection"
    /\ procs[p].pc = "rename_output_file:upload"
    /\ keyword_output' =
          IF procs[p].found
          THEN PutFile(keyword_output,
                       FileName(strftime(clock), <<Dec(procs[p].group_number)>>),
                       Lines(<<Rec("y")>>))
          ELSE keyword_output
    /\ procs' = [procs EXCEPT ![p] = [@ EXCEPT !.pc = "update_log:read"]]
    /\ UNCHANGED << dbx, repost_output, output_dir, clock, faults_left, ticks,
                    runs, issued, lastRun, scheduler >>

\* update_log: content = read_file_form_dropbox(dbx, output_log_file)
UpdateLogRead(p) ==
    /\ procs[p].pc = "update_log:read"
    /\ Download(p, keyword_output_log_file, "update_log:write")

\* update_log: write_file_to_dropbox(dbx, output_log_file, new_content)
UpdateLogWrite(p) ==
    /\ procs[p].pc = "update_log:write"
    /\ LET formatted_time == strftime(clock)
           group_number == procs[p].group_number
           log_data ==
               [file_name |-> IF procs[p].found
                              THEN FileName(formatted_time, <<Dec(group_number)>>)
                              ELSE StrNone,
                creation_time |-> formatted_time,
                group_number |-> group_number,
                success |-> procs[p].found]
       IN  /\ dbx' = WriteBack(dbx, keyword_output_log_file,
                        update_log(Snapshot(dbx, procs[p].seen), {}, log_data,
                                   keyword_output_log_file))
           /\ procs' = [procs EXCEPT ![p] =
                 [@ EXCEPT !.pc = IF procs[p].found THEN "done"
                                  ELSE "log_error:read",
                           !.entry = log_data,
                           !.written = @ \cup {keyword_output_log_file}]]
    /\ UNCHANGED << keyword_output, repost_output, output_dir, clock,
                    faults_left, ticks, runs, issued, lastRun, scheduler >>

\* log_error of either script: the read of the error log
LogErrorRead(p) ==
    /\ procs[p].pc = "log_error:read"
    /\ Download(p, error_log_file(procs[p].kind), "log_error:write")

\* log_error of either script: the write of the error log
LogErrorWrite(p) ==
    /\ procs[p].pc = "log_error:write"
    /\ LET d == Snapshot(dbx, procs[p].seen)
           gs == procs[p].group_numbers
           result ==
               IF procs[p].kind = "collection"
               THEN keyword_log_error(d, {}, clock,
                        [text |-> "No output file found for group",
                         groups |-> <<Dec(procs[p].group_number)>>],
                        keyword_error_log_file)
               ELSE repost_log_error(d, {}, clock,
                        [text |-> "No output file found for group to group at",
                         groups |-> <<gs[1], gs[Len(gs)]>>,
                         at |-> strftime(clock)],
                        repost_error_log_file)
       IN  dbx' = WriteBack(dbx, error_log_file(procs[p].kind), result)
    /\ procs' = [procs EXCEPT ![p] =
          [@ EXCEPT !.pc = IF procs[p].kind = "collection" THEN "done"
                           ELSE "log:read",
                    !.written = @ \cup {error_log_file(procs[p].kind)}]]
    /\ UNCHANGED << keyword_output, repost_output, output_dir, clock,
                    faults_left, ticks, runs, issued, lastRun, scheduler >>

\* repost rename_output_file: the read of the range file and what follows it
RenameRead(p) ==
    /\ procs[p].pc = "rename_output_file:read"
    /\ LET content == read_file_from_dropbox(dbx, {}, group_range_file)
       IN  procs' = [procs EXCEPT ![p] =
              IF content = None THEN [@ EXCEPT !.pc = "log:read"]
              ELSE IF splitlines(content) = <<>> THEN [@ EXCEPT !.pc = "raised"]
              ELSE [@ EXCEPT !.pc = "rename_output_file:upload",
                             !.group_numbers = splitlines(content)]]
    /\ UNCHANGED << dbx, keyword_output, repost_output, output_dir, clock,
                    faults_left, ticks, runs, issued, lastRun, scheduler >>

\* repost rename_output_file: the loop over the local directory
PublishUpload(p) ==
    /\ procs[p].kind = "publish"
    /\ procs[p].pc = "rename_output_file:upload"
    /\ LET gs == procs[p].group_numbers
           new_file_name == FileName(strftime(clock), <<gs[1], gs[Len(gs)]>>)
       IN  IF procs[p].found
           THEN /\ repost_output' = PutFile(repost_output, new_file_name,
                                            Lines(<<Rec("y")>>))
                /\ procs' = [procs EXCEPT ![p] =
                      [@ EXCEPT !.pc = "log:read",
                                !.new_file_name = new_file_name,
                                !.success = TRUE]]
           ELSE /\ repost_output' = repost_output
                /\ procs' = [procs EXCEPT ![p] = [@ EXCEPT !.pc = "log_error:read"]]
    /\ UNCHANGED << dbx, keyword_output, output_dir, clock, faults_left, ticks,
                    runs, issued, lastRun, scheduler >>

\* log: the read of the range file
LogRead(p) ==
    /\ procs[p].pc = "log:read"
    /\ LET content == read_file_from_dropbox(dbx, {}, group_range_file)
       IN  procs' = [procs EXCEPT ![p] =
              IF content = None THEN [@ EXCEPT !.pc = "done"]
              ELSE [@ EXCEPT !.pc = "record_tracking:read",
                             !.group_numbers = splitlines(content)]]
    /\ UNCHANGED << dbx, keyword_output, repost_output, output_dir, clock,
                    faults_left, ticks, runs, issued, lastRun, scheduler >>

\* record_tracking: content = read_file_from_dropbox(dbx, log_file)
RecordTrackingRead(p) ==
    /\ procs[p].pc = "record_tracking:read"
    /\ Download(p, tracking_log_file, "record_tracking:write")

\* record_tracking: write_file_to_dropbox(dbx, log_file, new_content)
RecordTrackingWrite(p) ==
    /\ procs[p].pc = "record_tracking:write"
    /\ LET result == record_tracking(Snapshot(dbx, procs[p].seen), {},
                                     procs[p].new_file_name, strftime(clock),
                                     procs[p].group_numbers, tracking_log_file,
                                     procs[p].success)
           data == json_loads(result[tracking_log_file])
       IN  /\ dbx' = WriteBack(dbx, tracking_log_file, result)
           /\ procs' = [procs EXCEPT ![p] =
                 [@ EXCEPT !.pc = IF procs[p].group_numbers = <<>> THEN "done"
                                  ELSE "get_original_creation_time:read",
                           !.k = 1,
                           !.entry = data[Len(data)],
                           !.written = @ \cup {tracking_log_file}]]
    /\ UNCHANGED << keyword_output, repost_output, output_dir, clock,
                    faults_left, ticks, runs, issued, lastRun, scheduler >>

\* get_original_creation_time: content = read_file_from_dropbox(dbx, log_file)
OriginalTimeRead(p) ==
    /\ procs[p].pc = "get_original_creation_time:read"
    /\ Download(p, keyword_output_log_file, "record_group_tracking_status:read")

\* record_group_tracking_status: the read of the status table
StatusRead(p) ==
    /\ procs[p].pc = "record_group_tracking_status:read"
    /\ Download(p, group_status_log_file, "record_group_tracking_status:write")

\* record_group_tracking_status: the write of the status table, and the
\* loop of log() going on to the next group number
StatusWrite(p) ==
    /\ procs[p].pc = "record_group_tracking_status:write"
    /\ LET gs == procs[p].group_numbers
           k == procs[p].k
           result == record_group_tracking_status(Snapshot(dbx, procs[p].seen),
                                                  {}, clock, int(gs[k]))
       IN  /\ dbx' = WriteBack(dbx, group_status_log_file, result)
           /\ procs' = [procs EXCEPT ![p] =
                 [@ EXCEPT !.pc = IF k = Len(gs) THEN "done"
                                  ELSE "get_original_creation_time:read",
                           !.k = k + 1,
                           !.written = @ \cup {group_status_log_file}]]
    /\ UNCHANGED << keyword_output, repost_output, output_dir, clock,
                    faults_left, ticks, runs, issued, lastRun, scheduler >>

NextConcurrent ==
    \E p \in ProcIds :
        \/ GetGroupNumberRead(p)
        \/ GetGroupNumberWrite(p)
        \/ CollectionUpload(p)
        \/ UpdateLogRead(p)
        \/ UpdateLogWrite(p)
        \/ LogErrorRead(p)
        \/ LogErrorWrite(p)
        \/ RenameRead(p)
        \/ PublishUpload(p)
        \/ LogRead(p)
        \/ RecordTrackingRead(p)
        \/ RecordTrackingWrite(p)
        \/ OriginalTimeRead(p)
        \/ StatusRead(p)
        \/ StatusWrite(p)

SpecConcurrent == InitConcurrent /\ [][NextConcurrent]_vars

\* ---------------------------- record_group_tracking_status on its own
\* the groups of the enumerated logs and tables, and one more to call for
StatusGroups == 1..MaxLogLen

\* collection logs of up to MaxLogLen entries; a group number may come
\* twice, with different creation times
StatusLogs ==
    UNION { { [i \in 1..n |->
                 [file_name |-> FileName(Stamp(i - 1), <<Dec(g[i])>>),
                  creation_time |-> Stamp(i - 1),
                  group_number |-> g[i],
                  success |-> TRUE]] : g \in [1..n -> StatusGroups] }
            : n \in 0..MaxLogLen }

\* status tables of up to MaxLogLen entries, one entry for a group at most
StatusTables ==
    UNION { { [i \in 1..n |->
                 [group_number |-> g[i],
                  original_creation_time |-> o[i],
                  tracked_times |-> 1,
                  last_tracked |-> Stamp(MaxLogLen)]] :
                    g \in {f \in [1..n -> StatusGroups] :
                              \A i, j \in 1..n : f[i] = f[j] => i = j},
                    o \in [1..n -> {Stamp(0), Unknown}] }
            : n \in 0..MaxLogLen }

InitStatus ==
    /\ \E log_file \in {json_dumps(log_data) : log_data \in StatusLogs}
                         \cup {NotFound},
          content \in {json_dumps(t) : t \in StatusTables} \cup {NotFound} :
          dbx = [p \in Paths |->
                    IF p = keyword_output_log_file THEN log_file
                    ELSE IF p = group_status_log_file THEN content
                    ELSE NotFound]
    /\ clock = (MaxLogLen + 1) * TicksPerSecond
    /\ keyword_output = {}
    /\ repost_output = {}
    /\ output_dir = {}
    /\ faults_left = 0
    /\ ticks = 0
    /\ runs = 0
    /\ issued = <<>>
    /\ lastRun = NoRun
    /\ procs = <<>>
    /\ scheduler = NoCrawl

\* record_group_tracking_status(dbx, group_number), once per input
StatusStep ==
    /\ lastRun = NoRun
    /\ \E group_number \in StatusGroups \cup {MaxLogLen + 1} :
        /\ dbx' = record_group_tracking_status(dbx, {}, clock, group_number)
        /\ lastRun' = [kind |-> "status", group_number |-> group_number,
                       dbx |-> dbx]
    /\ UNCHANGED << keyword_output, repost_output, output_dir, clock,
                    faults_left, ticks, runs, issued, procs, scheduler >>

NextStatus == StatusStep

SpecStatus == InitStatus /\ [][NextStatus]_vars

\* ------------------------------------------------------------------ a crawl
\* One crawl of one spider over the ids of combined_post_ids.txt.  The
\* scheduler keeps the requests that await their response; `sent` and
\* `received` record, for each post id of a first request, the requests
\* issued after it and the responses parsed, in order.
PostIds == {"x", "y"}

TweetIdLists == UNION {list(S) : S \in SUBSET PostIds}

\* bodies the remote service may send for a page of reposts; it has data for
\* the pages below MaxPages
RepostBodies(page_num) ==
    {Json([data |-> <<>>]), NoDataBody, NotJsonBody}
        \cup (IF page_num < MaxPages THEN {Json([data |-> <<"repost">>])} ELSE {})

\* bodies for a page of comments: with a max_id, without one, or unreadable;
\* a max_id other than 0 only for the requests below MaxPages
CommentBodies(requested) ==
    {Json([data |-> <<"comment">>, max_id |-> 0]), Json([data |-> <<"comment">>]),
     Json([data |-> <<>>, max_id |-> 0]), NoDataBody, NotJsonBody}
        \cup (IF requested < MaxPages
              THEN {Json([data |-> data, max_id |-> max_id]) :
                        data \in {<<>>, <<"comment">>}, max_id \in {1, 2}}
              ELSE {})

InitSpider ==
    /\ \E content \in {Lines(ids) : ids \in TweetIdLists} \cup {NotFound} :
         dbx = [p \in Paths |->
                  IF p = combined_post_ids_file THEN content ELSE NotFound]
    /\ scheduler \in {[spider |-> name, started |-> FALSE, pending |-> {},
                       sent |-> [id \in PostIds |-> <<>>],
                       received |-> [id \in PostIds |-> <<>>]] :
                          name \in {"repost", "comment"}}
    /\ keyword_output = {}
    /\ repost_output = {}
    /\ output_dir = {}
    /\ clock = 0
    /\ faults_left = 0
    /\ ticks = 0
    /\ runs = 0
    /\ issued = <<>>
    /\ lastRun = NoRun
    /\ procs = <<>>

\* the crawler takes what a callback yielded on the response to an awaited
\* request; `post` is the post id of the first request it descends from
Schedule(awaited, response, yielded) ==
    [scheduler EXCEPT
        !.pending = (@ \ {awaited})
                        \cup {[post |-> awaited.post, request |-> yielded.requests[i]] :
                                 i \in DOMAIN yielded.requests},
        !.sent[awaited.post] = @ \o yielded.requests,
        !.received[awaited.post] = Append(@, response)]

StartRequests(yielded) ==
    [scheduler EXCEPT
        !.started = TRUE,
        !.pending = {[post |-> yielded.requests[i].meta.original_tweet_id,
                      request |-> yielded.requests[i]] :
                         i \in DOMAIN yielded.requests},
        !.sent = [id \in PostIds |->
                    SelectSeq(yielded.requests,
                              LAMBDA r : r.meta.original_tweet_id = id)]]

RepostStartRequests ==
    /\ scheduler.spider = "repost"
    /\ ~scheduler.started
    /\ scheduler' = StartRequests(repost_start_requests(dbx))
    /\ UNCHANGED << dbx, keyword_output, repost_output, output_dir, clock,
                    faults_left, ticks, runs, issued, lastRun, procs >>

\* the response to one awaited request arrives and parse is called on it
RepostParse ==
    /\ scheduler.spider = "repost"
    /\ \E awaited \in scheduler.pending :
         \E text \in RepostBodies(awaited.request.meta.page_num) :
            scheduler' = Schedule(awaited, Response(awaited.request, text),
                                  repost_parse(Response(awaited.request, text)))
    /\ UNCHANGED << dbx, keyword_output, repost_output, output_dir, clock,
                    faults_left, ticks, runs, issued, lastRun, procs >>

CommentStartRequests ==
    /\ scheduler.spider = "comment"
    /\ ~scheduler.started
    /\ scheduler' = StartRequests(comment_start_requests(dbx))
    /\ UNCHANGED << dbx, keyword_output, repost_output, output_dir, clock,
                    faults_left, ticks, runs, issued, lastRun, procs >>

CommentParse ==
    /\ scheduler.spider = "comment"
    /\ \E awaited \in scheduler.pending :
         \E text \in CommentBodies(Len(scheduler.sent[awaited.post])) :
            scheduler' = Schedule(awaited, Response(awaited.request, text),
                                  comment_parse(Response(awaited.request, text)))
    /\ UNCHANGED << dbx, keyword_output, repost_output, output_dir, clock,
                    faults_left, ticks, runs, issued, lastRun, procs >>

NextSpider ==
    \/ RepostStartRequests
    \/ RepostParse
    \/ CommentStartRequests
    \/ CommentParse

SpecSpider == InitSpider /\ [][NextSpider]_vars

\* =================================================================== claims
Groups == 1..MaxRuns

Range(s) == {s[i] : i \in DOMAIN s}

\* the value of group_number.txt, 0 while the file is not there
Counter(d) ==
    IF d[group_number_file] = NotFound THEN 0 ELSE int(d[group_number_file])

\* the JSON array stored at a log path, empty while the file is not there
\* or holds no JSON
LogOf(d, p) == IF d[p] = NotFound \/ ~is_json(d[p]) THEN <<>> ELSE json_loads(d[p])

LogPaths ==
    { keyword_output_log_file, keyword_error_log_file, tracking_log_file,
      repost_error_log_file }

\* new is old with exactly one entry added at the end
Appended(old, new) ==
    /\ Len(new) = Len(old) + 1
    /\ \A i \in 1..Len(old) : new[i] = old[i]

\* the lines of group_number_range.txt, none while the file is not there
RangeLines(d) ==
    IF d[group_range_file] = NotFound THEN <<>> ELSE splitlines(d[group_range_file])

\* tracked_times of group g in the status table, 0 while g has no entry
TrackedTimes(d, g) ==
    LET t == LogOf(d, group_status_log_file)
        at == {i \in DOMAIN t : t[i].group_number = g}
    IN  IF at = {} THEN 0
        ELSE t[CHOOSE i \in at : \A j \in at : i <= j].tracked_times

\* the step is a whole run of one of the scripts
CollectionStep == runs' = runs + 1 /\ lastRun'.kind = "collection"
SelectionStep == runs' = runs + 1 /\ lastRun'.kind = "selection"
PublishStep == runs' = runs + 1 /\ lastRun'.kind = "publish"
\* the publish run got into log() and past its read of the range file
PublishLogged ==
    PublishStep /\ ~lastRun'.raised /\ dbx[group_range_file] # NotFound

\* C1: with the runs serialized and the store answering every request, the
\* i-th call of get_group_number since the counter file was absent (k = 0)
\* returned i, and after each call the persisted counter is the number just
\* returned; so N calls from a counter at k return k+1, ..., k+N in order.
C1_Monotonic ==
    /\ \A i \in DOMAIN issued : issued[i] = i
    /\ Counter(dbx) = Len(issued)
    /\ (issued # <<>> => dbx[group_number_file] = Dec(issued[Len(issued)]))

C1_Witness == issued = <<1, 2, 3>> /\ dbx[group_number_file] = Dec(3)

\* C2: over serialized collection runs in which a read or a write of
\* group_number.txt may fail, no two calls of get_group_number return the
\* same number and the persisted counter never gets smaller.
C2_NeverReusedNeverDecremented ==
    /\ [](\A i, j \in DOMAIN issued : i # j => issued[i] # issued[j])
    /\ [][Counter(dbx') >= Counter(dbx)]_vars

\* C3: every append to a log path (update_log, record_tracking, log_error of
\* either script) leaves the stored array exactly one entry longer with all
\* earlier entries unchanged in place; a log path changes in no other way.
C3_AppendOnly ==
    [][ /\ \A p \in LogPaths :
              \/ LogOf(dbx', p) = LogOf(dbx, p)
              \/ Appended(LogOf(dbx, p), LogOf(dbx', p))
        /\ (CollectionStep /\ ~lastRun'.raised) =>
              Appended(LogOf(dbx, keyword_output_log_file),
                       LogOf(dbx', keyword_output_log_file))
        /\ (CollectionStep /\ lastRun'.ret = NoneFalse) =>
              Appended(LogOf(dbx, keyword_error_log_file),
                       LogOf(dbx', keyword_error_log_file))
        /\ PublishLogged =>
              Appended(LogOf(dbx, tracking_log_file),
                       LogOf(dbx', tracking_log_file))
        /\ (PublishLogged /\ RangeLines(dbx) # <<>> /\ ~lastRun'.success) =>
              Appended(LogOf(dbx, repost_error_log_file),
                       LogOf(dbx', repost_error_log_file))
      ]_vars

C3_Witness ==
    /\ Len(LogOf(dbx, keyword_output_log_file)) >= 2
    /\ Len(LogOf(dbx, keyword_error_log_file)) >= 1
    /\ Len(LogOf(dbx, tracking_log_file)) >= 1
    /\ Len(LogOf(dbx, repost_error_log_file)) >= 1

\* C4: tracked_times of a group goes from no entry to 1 and from n to n + 1
\* with each call of record_group_tracking_status for that group (one call
\* per line of the range file in a publish run that reaches log), and does
\* not change in any other step.
C4_TrackedTimesSteps ==
    [][ \A g \in Groups :
          TrackedTimes(dbx', g) =
              IF PublishLogged /\ Dec(g) \in Range(RangeLines(dbx))
              THEN TrackedTimes(dbx, g) + 1
              ELSE TrackedTimes(dbx, g)
      ]_vars

C4_Witness == \E g \in Groups : TrackedTimes(dbx, g) = 2

\* C5: after every completed publish run, tracked_times of each group is the
\* number of entries of repost_output_log.json whose groups_in_it names it.
C5_TrackedTimesCountsLogEntries ==
    \A g \in Groups :
        TrackedTimes(dbx, g) =
            Cardinality({i \in DOMAIN LogOf(dbx, tracking_log_file) :
                Dec(g) \in Range(LogOf(dbx, tracking_log_file)[i].groups_in_it.joined)})

C5_Witness ==
    /\ Len(LogOf(dbx, tracking_log_file)) = 2
    /\ \E i \in 1..2 : ~LogOf(dbx, tracking_log_file)[i].success
    /\ \E g \in Groups :
          /\ TrackedTimes(dbx, g) = 2
          /\ \A i \in 1..2 :
                Dec(g) \in Range(LogOf(dbx, tracking_log_file)[i].groups_in_it.joined)

\* C6: every group named in a tracking log entry or holding a status entry
\* has a collection log entry with its number and success = true.
C6_TrackedOnlyIfCollected ==
    \A g \in Groups :
        (\/ TrackedTimes(dbx, g) > 0
         \/ \E i \in DOMAIN LogOf(dbx, tracking_log_file) :
               Dec(g) \in Range(LogOf(dbx, tracking_log_file)[i].groups_in_it.joined))
        => \E i \in DOMAIN LogOf(dbx, keyword_output_log_file) :
               /\ LogOf(dbx, keyword_output_log_file)[i].group_number = g
               /\ LogOf(dbx, keyword_output_log_file)[i].success

\* the local directory holds no file ending in .jsonl
NoCandidate == FirstCandidate(output_dir) = {NoFile}

\* the stores d1 and d2 agree on every path outside `changed`
SameExcept(d1, d2, changed) == \A p \in Paths \ changed : d1[p] = d2[p]

\* C9 as stated: a rename_output_file that scans the local directory and
\* finds no .jsonl file returns failure, appends exactly one ErrorEntry to its
\* error log and changes no other persisted path (the collection run's
\* counter file, written by get_group_number before, is left aside).
C9_OnlyErrorLogChanges ==
    [][ /\ (CollectionStep /\ NoCandidate) =>
              /\ lastRun'.ret = NoneFalse
              /\ Appended(LogOf(dbx, keyword_error_log_file),
                          LogOf(dbx', keyword_error_log_file))
              /\ SameExcept(dbx, dbx', {keyword_error_log_file, group_number_file})
        /\ (PublishStep /\ NoCandidate /\ RangeLines(dbx) # <<>>) =>
              /\ ~lastRun'.raised /\ ~lastRun'.success
              /\ Appended(LogOf(dbx, repost_error_log_file),
                          LogOf(lastRun'.dbx_renamed, repost_error_log_file))
              /\ SameExcept(dbx, lastRun'.dbx_renamed, {repost_error_log_file})
      ]_vars

\* C9 amended: as above, and the collection run's rename_output_file also
\* appends one CollectionLogEntry with file_name "None" and success false to
\* keyword_output_log.json; nothing else persisted changes, the two Dropbox
\* directories and the local directory included.
C9_ErrorLogAndFailureEntry ==
    [][ /\ (CollectionStep /\ NoCandidate) =>
              /\ lastRun'.ret = NoneFalse
              /\ Appended(LogOf(dbx, keyword_error_log_file),
                          LogOf(dbx', keyword_error_log_file))
              /\ Appended(LogOf(dbx, keyword_output_log_file),
                          LogOf(dbx', keyword_output_log_file))
              /\ LET new == LogOf(dbx', keyword_output_log_file)
                 IN  /\ new[Len(new)].file_name = StrNone
                     /\ new[Len(new)].success = FALSE
                     /\ new[Len(new)].group_number = lastRun'.group_number
              /\ SameExcept(dbx, dbx', {keyword_error_log_file,
                                        keyword_output_log_file, group_number_file})
              /\ UNCHANGED << keyword_output, repost_output, output_dir >>
        /\ (PublishStep /\ NoCandidate /\ RangeLines(dbx) # <<>>) =>
              /\ ~lastRun'.raised /\ ~lastRun'.success
              /\ lastRun'.new_file_name = None
              /\ Appended(LogOf(dbx, repost_error_log_file),
                          LogOf(lastRun'.dbx_renamed, repost_error_log_file))
              /\ SameExcept(dbx, lastRun'.dbx_renamed, {repost_error_log_file})
              /\ UNCHANGED << keyword_output, repost_output, output_dir >>
      ]_vars

C9_Witness ==
    /\ lastRun.kind = "publish" /\ ~lastRun.raised /\ ~lastRun.success
    /\ output_dir = {}
    /\ Len(LogOf(lastRun.dbx_renamed, repost_error_log_file)) = 1
    /\ Len(LogOf(dbx, keyword_error_log_file)) = 1

\* C10: a publish run that published a file appends to the tracking log and
\* counts every group of the range; a publish run whose rename_output_file
\* returned failure leaves the status table (tracked_times, last_tracked of
\* every group) as it was.
C10_FailedRunLeavesStatus ==
    [][ /\ (PublishStep /\ ~lastRun'.raised /\ lastRun'.success) =>
              /\ Appended(LogOf(dbx, tracking_log_file),
                          LogOf(dbx', tracking_log_file))
              /\ \A g \in Groups :
                    Dec(g) \in Range(RangeLines(dbx)) =>
                        TrackedTimes(dbx', g) = TrackedTimes(dbx, g) + 1
        /\ (PublishStep /\ ~lastRun'.raised /\ ~lastRun'.success) =>
              dbx'[group_status_log_file] = dbx[group_status_log_file]
      ]_vars

\* the age in ticks of entry e at the instant of the selection
AgeTicks(e) == clock - e.creation_time.stamp * TicksPerSecond

\* C7: get_groups_to_track selects a collection-log entry exactly when its
\* age, now minus creation_time, is between 0 and the window, both ends
\* included; the file name and the group number of a selected entry are both
\* returned.
C7_WindowInclusive ==
    lastRun.kind = "select" =>
        LET log_data == LogOf(dbx, keyword_output_log_file)
        IN  \A i \in DOMAIN log_data :
              /\ (log_data[i].group_number \in Range(lastRun.group_range)) <=>
                    (/\ 0 <= AgeTicks(log_data[i])
                     /\ AgeTicks(log_data[i]) <=
                          lastRun.window * SecondsPerHour * TicksPerSecond)
              /\ (log_data[i].group_number \in Range(lastRun.group_range)) <=>
                    (log_data[i].file_name \in Range(lastRun.files_to_track))

\* a 48 h selection holding an entry aged exactly 48 h and leaving out one
\* from the future
C7_Witness ==
    /\ lastRun.kind = "select" /\ lastRun.window = tracking_window_hours
    /\ LET log_data == LogOf(dbx, keyword_output_log_file)
       IN  /\ Len(log_data) = 2
           /\ AgeTicks(log_data[1]) =
                 tracking_window_hours * SecondsPerHour * TicksPerSecond
           /\ AgeTicks(log_data[2]) < 0
           /\ lastRun.group_range = <<1>>

\* C8: combine_posts_from_groups returns each identifier once, and the set
\* returned is the union of the mblogid of the records of the listed files
\* that can be read, whatever the order of the list, however often a file or
\* an identifier repeats, and whichever listed files cannot be read.
C8_UnionOnce ==
    (lastRun.kind = "combine" /\ ~lastRun.raised) =>
        LET ids == lastRun.combined_post_ids
            expected ==
                IF lastRun.faults # {} THEN {}
                ELSE UNION { { f.content.lines[i].mblogid :
                                 i \in { j \in DOMAIN f.content.lines :
                                           f.content.lines[j].kind = "record" } }
                             : f \in { g \in keyword_output :
                                         g.name \in Range(lastRun.files_to_track) } }
        IN  /\ Range(ids) = expected
            /\ \A i, j \in DOMAIN ids : i # j => ids[i] # ids[j]

\* files [x, y] and [y, z] listed around a file that is not there
C8_Witness ==
    /\ lastRun.kind = "combine" /\ ~lastRun.raised /\ lastRun.faults = {}
    /\ lastRun.files_to_track = <<FileA, StrNone, FileB>>
    /\ [name |-> FileA, content |-> Lines(<<Rec("x"), Rec("y")>>)] \in keyword_output
    /\ [name |-> FileB, content |-> Lines(<<Rec("y"), Rec("z")>>)] \in keyword_output
    /\ Range(lastRun.combined_post_ids) = {"x", "y", "z"}
    /\ Len(lastRun.combined_post_ids) = 3

\* ---------------------------------------------------- two runs side by side
\* some run read path x while the other was between its read and its write
\* of x: the two read-modify-writes of x overlapped
Raced(x) == \E p \in ProcIds : x \in procs[p].raced

\* what process p downloaded from path x
SeenLog(p, x) == LogOf(Snapshot(dbx, procs[p].seen), x)
SeenCounter(p) == Counter(Snapshot(dbx, procs[p].seen))

RunLogs == {keyword_output_log_file, tracking_log_file}

\* C11: when two runs have both appended to the same run log (update_log on
\* keyword_output_log.json, record_tracking on repost_output_log.json) and
\* their read-modify-writes overlapped, the log has grown by one entry only,
\* that of the later writer; when they did not overlap, the log holds what
\* the first run read, then the first run's entry, then the second run's.
C11_LostUpdateIffOverlap ==
    \A x \in RunLogs : \A p, q \in ProcIds :
        (p # q /\ x \in procs[p].written /\ x \in procs[q].written) =>
            IF Raced(x)
            THEN /\ SeenLog(p, x) = SeenLog(q, x)
                 /\ Len(LogOf(dbx, x)) = Len(SeenLog(p, x)) + 1
                 /\ LogOf(dbx, x) \in { Append(SeenLog(p, x), procs[p].entry),
                                       Append(SeenLog(p, x), procs[q].entry) }
            ELSE LogOf(dbx, x) \in
                    { Append(Append(SeenLog(p, x), procs[p].entry), procs[q].entry),
                      Append(Append(SeenLog(q, x), procs[q].entry), procs[p].entry) }

\* both runs are over, each appended its own entry to the collection log,
\* and the log is one entry longer than what they read
C11_Witness ==
    /\ \A p \in ProcIds : procs[p].pc = "done" /\ procs[p].kind = "collection"
    /\ procs[1].entry # procs[2].entry
    /\ Len(LogOf(dbx, keyword_output_log_file)) =
          Len(SeenLog(1, keyword_output_log_file)) + 1
    /\ Len(SeenLog(1, keyword_output_log_file)) = 1

\* C12: when two collection runs have both returned from get_group_number and
\* their calls overlapped, both read the same counter k, both returned k + 1
\* and the counter stands at k + 1; when the calls did not overlap (one run
\* at a time) they returned k + 1 and k + 2 and the counter stands at k + 2.
C12_SameNumberIffOverlap ==
    \A p, q \in ProcIds :
        (p # q /\ procs[p].group_number # 0 /\ procs[q].group_number # 0) =>
            LET k == IF SeenCounter(p) <= SeenCounter(q) THEN SeenCounter(p)
                     ELSE SeenCounter(q)
            IN  IF Raced(group_number_file)
                THEN /\ SeenCounter(p) = SeenCounter(q)
                     /\ procs[p].group_number = k + 1
                     /\ procs[q].group_number = k + 1
                     /\ Counter(dbx) = k + 1
                ELSE /\ {procs[p].group_number, procs[q].group_number} = {k + 1, k + 2}
                     /\ Counter(dbx) = k + 2

\* two collection runs started on a counter at 1 both returned 2
C12_Witness ==
    /\ issued = <<2, 2>>
    /\ Counter(dbx) = 2
    /\ \A p \in ProcIds : procs[p].pc = "done"

\* C13: every run of a script ends by returning, with an explicit success or
\* failure result; none ends in an exception, a publish run started on an
\* empty group_number_range.txt included.
C13_RunsComplete ==
    lastRun.kind \in {"collection", "selection", "publish"} => ~lastRun.raised

\* C14: every collection run and every publish run that ends without having
\* published an output file has appended at least one ErrorEntry to its
\* error log, a publish run that could not read group_number_range.txt
\* included.
C14_FailureLeavesErrorEntry ==
    [][ /\ (CollectionStep /\ (lastRun'.raised \/ lastRun'.ret = NoneFalse)) =>
              Len(LogOf(dbx', keyword_error_log_file)) >
                  Len(LogOf(dbx, keyword_error_log_file))
        /\ (PublishStep /\ (lastRun'.raised \/ ~lastRun'.success)) =>
              Len(LogOf(dbx', repost_error_log_file)) >
                  Len(LogOf(dbx, repost_error_log_file))
      ]_vars

\* the files of a directory that carry a canonical name
\* "<time>_group_<n>.jsonl" or "<time>_group_<first>_group_<last>.jsonl"
CanonicalFiles(dir) == {f \in dir : f.name.time # None}

\* C15: a rename_output_file that succeeds leaves exactly one new canonical
\* file, the renamed local file, and the same content under the same name in
\* its Dropbox directory; one that does not succeed, the upload failing
\* after the local rename included, leaves no new file under a canonical
\* name, locally or in Dropbox.
C15_OneCanonicalFileOrNone ==
    [][ /\ (CollectionStep /\ ~lastRun'.raised /\ lastRun'.ret # NoneFalse) =>
              /\ \E f \in output_dir' :
                    /\ f.name = lastRun'.ret.str
                    /\ CanonicalFiles(output_dir') \ CanonicalFiles(output_dir) \subseteq {f}
                    /\ keyword_output' \ keyword_output \subseteq {f}
                    /\ f \in keyword_output'
        /\ (PublishStep /\ ~lastRun'.raised /\ lastRun'.success) =>
              /\ \E f \in output_dir' :
                    /\ f.name = lastRun'.new_file_name
                    /\ CanonicalFiles(output_dir') \ CanonicalFiles(output_dir) \subseteq {f}
                    /\ repost_output' \ repost_output \subseteq {f}
                    /\ f \in repost_output'
        /\ (CollectionStep /\ (lastRun'.raised \/ lastRun'.ret = NoneFalse)) =>
              /\ CanonicalFiles(output_dir') \subseteq CanonicalFiles(output_dir)
              /\ keyword_output' = keyword_output
        /\ (PublishStep /\ (lastRun'.raised \/ ~lastRun'.success)) =>
              /\ CanonicalFiles(output_dir') \subseteq CanonicalFiles(output_dir)
              /\ repost_output' = repost_output
      ]_vars

\* the group numbers on the lines of group_number_range.txt
RangeNumbers(d) == {int(RangeLines(d)[i]) : i \in DOMAIN RangeLines(d)}

\* C16: a publish run that publishes a file names it
\* "<timestamp>_group_<first>_group_<last>.jsonl" with first the smallest and
\* last the largest group number of the selection that the preceding
\* selection run wrote to group_number_range.txt.
C16_NameIsMinMax ==
    [][ (PublishStep /\ ~lastRun'.raised /\ lastRun'.success) =>
            /\ lastRun'.new_file_name.time = strftime(clock)
            /\ lastRun'.new_file_name.ext = ".jsonl"
            /\ \E lo, hi \in RangeNumbers(dbx) :
                  /\ \A n \in RangeNumbers(dbx) : lo <= n /\ n <= hi
                  /\ lastRun'.new_file_name.groups = <<Dec(lo), Dec(hi)>>
      ]_vars

\* a file published for a selection of the groups 1 and 2
C16_Witness ==
    /\ lastRun.kind = "publish" /\ ~lastRun.raised /\ lastRun.success
    /\ RangeNumbers(dbx) = {1, 2}
    /\ lastRun.new_file_name.groups = <<Dec(1), Dec(2)>>
    /\ \E f \in repost_output : f.name = lastRun.new_file_name

\* C17: on a keyword_output_log.json that is absent or cannot be parsed,
\* get_groups_to_track returns the empty selection ([], []); it does not
\* raise.
C17_UnreadableLogEmptySelection ==
    (lastRun.kind = "select" /\ dbx[keyword_output_log_file] \in UnreadableLogs) =>
        /\ ~lastRun.raised
        /\ lastRun.files_to_track = <<>>
        /\ lastRun.group_range = <<>>

\* the mblogid of every record line of the listed files that were read
ListedRecordIds ==
    IF lastRun.faults # {} THEN {}
    ELSE UNION { { f.content.lines[i].mblogid :
                     i \in { j \in DOMAIN f.content.lines :
                               f.content.lines[j].kind = "record" } }
                 : f \in { g \in keyword_output :
                             g.name \in Range(lastRun.files_to_track) } }

\* C18: combine_posts_from_groups skips a line that is no JSON and a JSON
\* line without 'mblogid' alike: the call returns, and the identifiers of
\* every other line of that file and of every later file are in the result.
C18_MalformedLineSkipped ==
    lastRun.kind = "combine" =>
        /\ ~lastRun.raised
        /\ Range(lastRun.combined_post_ids) = ListedRecordIds

\* the second stored as last_tracked of group g, -1 while g has no entry
LastTracked(d, g) ==
    LET t == LogOf(d, group_status_log_file)
        at == {i \in DOMAIN t : t[i].group_number = g}
    IN  IF at = {} THEN -1
        ELSE t[CHOOSE i \in at : \A j \in at : i <= j].last_tracked.stamp

\* the step calls record_group_tracking_status for group g
Tracks(g) == PublishLogged /\ Dec(g) \in Range(RangeLines(dbx))

\* C19 as stated: each later call of record_group_tracking_status for a
\* group stores a last_tracked strictly greater than the one stored before.
C19_LastTrackedStrictlyGreater ==
    [][ \A g \in Groups :
          (Tracks(g) /\ TrackedTimes(dbx, g) > 0) =>
              LastTracked(dbx', g) > LastTracked(dbx, g)
      ]_vars

\* C19 amended: each call stores the clock's reading cut to the second, so
\* a later call's last_tracked is never smaller, is strictly greater exactly
\* when the clock has reached a later second, and is the same when both
\* calls fall within one second; no other step changes last_tracked.
C19_LastTrackedFollowsClock ==
    [][ \A g \in Groups :
          IF Tracks(g)
          THEN /\ LastTracked(dbx', g) = strftime(clock).stamp
               /\ LastTracked(dbx', g) >= LastTracked(dbx, g)
               /\ (LastTracked(dbx', g) > LastTracked(dbx, g)) <=>
                     (clock \div TicksPerSecond > LastTracked(dbx, g))
          ELSE LastTracked(dbx', g) = LastTracked(dbx, g)
      ]_vars

\* a group tracked twice, the second time in a later second
C19_Witness ==
    \E g \in Groups :
        /\ TrackedTimes(dbx, g) = 2
        /\ LastTracked(dbx, g) > 0
        /\ LET t == LogOf(dbx, tracking_log_file)
           IN  /\ Len(t) = 2
               /\ t[1].creation_time = Stamp(0)
               /\ t[2].creation_time = Stamp(LastTracked(dbx, g))

\* C20: the two sequences get_groups_to_track returns have the same length,
\* position k of both comes from one and the same collection-log entry, and
\* the entries they come from are in log order.
C20_ParallelInLogOrder ==
    (lastRun.kind = "select" /\ ~lastRun.raised) =>
        LET log_data == LogOf(dbx, keyword_output_log_file)
            files == lastRun.files_to_track
            numbers == lastRun.group_range
        IN  /\ Len(files) = Len(numbers)
            /\ \E idx \in [1..Len(files) -> DOMAIN log_data] :
                  /\ \A k \in 1..Len(files) :
                        /\ files[k] = log_data[idx[k]].file_name
                        /\ numbers[k] = log_data[idx[k]].group_number
                  /\ \A k, l \in 1..Len(files) : k < l => idx[k] < idx[l]

\* both entries of a two-entry log selected
C20_Witness ==
    /\ lastRun.kind = "select" /\ ~lastRun.raised
    /\ lastRun.group_range = <<1, 2>>
    /\ LET log_data == LogOf(dbx, keyword_output_log_file)
       IN  /\ Len(log_data) = 2
           /\ lastRun.files_to_track = <<log_data[1].file_name, log_data[2].file_name>>
           /\ log_data[1].creation_time # log_data[2].creation_time

\* C21: with the runs serialized and a clock that does not go back, the
\* entries of keyword_output_log.json are in chronological order
\* (creation_time does not decrease from one entry to the next), and every
\* step leaves the entries appended earlier as they were, in place.
C21_Chronological ==
    /\ [](\A i, j \in DOMAIN LogOf(dbx, keyword_output_log_file) :
             i < j => LogOf(dbx, keyword_output_log_file)[i].creation_time.stamp
                        <= LogOf(dbx, keyword_output_log_file)[j].creation_time.stamp)
    /\ [][ /\ Len(LogOf(dbx', keyword_output_log_file)) >=
                Len(LogOf(dbx, keyword_output_log_file))
           /\ \A i \in DOMAIN LogOf(dbx, keyword_output_log_file) :
                LogOf(dbx', keyword_output_log_file)[i] =
                    LogOf(dbx, keyword_output_log_file)[i]
         ]_vars

\* three entries, the first two of the same second, the third of a later
\* one
C21_Witness ==
    LET log_data == LogOf(dbx, keyword_output_log_file)
    IN  /\ Len(log_data) = 3
        /\ log_data[1].creation_time = log_data[2].creation_time
        /\ log_data[2].creation_time.stamp < log_data[3].creation_time.stamp

\* the entries of keyword_output_log.json that carry group number g
EntriesOf(d, g) ==
    {i \in DOMAIN LogOf(d, keyword_output_log_file) :
        LogOf(d, keyword_output_log_file)[i].group_number = g}

\* C22: once a collection run has ended, the upload of the renamed file
\* failing included, keyword_output_log.json holds exactly one entry with the
\* group number get_group_number issued to the run: success true with the
\* canonical file name, or success false with file_name "None".
C22_IssuedNumberLogged ==
    lastRun.kind = "collection" =>
        /\ Cardinality(EntriesOf(dbx, lastRun.group_number)) = 1
        /\ \A i \in EntriesOf(dbx, lastRun.group_number) :
            LET entry == LogOf(dbx, keyword_output_log_file)[i]
            IN  \/ /\ entry.success
                   /\ entry.file_name =
                        FileName(entry.creation_time, <<Dec(entry.group_number)>>)
                \/ /\ ~entry.success
                   /\ entry.file_name = StrNone

\* the local output directory holds no file the crawler produced since the
\* last rename: what ends in .jsonl there, a rename_output_file left
NoNewOutput == \A f \in output_dir : f.name # SpiderFile

\* the run's rename_output_file returned a file name
ReportedSuccess(run) ==
    /\ ~run.raised
    /\ \/ run.kind = "collection" /\ run.ret # NoneFalse
       \/ run.kind = "publish" /\ run.success

\* C23: a rename_output_file invoked on a local output directory in which
\* no output file was created since the previous invocation finds no
\* candidate and reports failure; it does not rename, and does not publish
\* again, the file an earlier invocation left under its canonical name.
C23_NoRepublish ==
    [][ ((CollectionStep \/ PublishStep) /\ NoNewOutput) =>
            /\ ~ReportedSuccess(lastRun')
            /\ output_dir' = output_dir
            /\ keyword_output' = keyword_output
            /\ repost_output' = repost_output
      ]_vars

\* the lines of the text file at path p, none while the file is not there
LinesOf(d, p) == IF d[p] = NotFound THEN <<>> ELSE splitlines(d[p])

\* C24: after a tracking-selection run, groups_to_track.txt holds the file
\* names the run returned, group_number_range.txt the group numbers it
\* returned and combined_post_ids.txt the identifiers aggregated from these
\* files; a run that returns the empty selection leaves an empty range, not
\* the range of an earlier run (a file that is not there counts as empty).
C24_PersistedIsReturned ==
    (lastRun.kind = "selection" /\ ~lastRun.raised) =>
        /\ LinesOf(dbx, groups_to_track_file) = lastRun.files_to_track
        /\ LinesOf(dbx, group_range_file) =
              [i \in 1..Len(lastRun.group_range) |-> Dec(lastRun.group_range[i])]
        /\ LinesOf(dbx, combined_post_ids_file) = lastRun.combined_post_ids

\* C25: with the runs serialized, repost_group_tracking_status.json holds at
\* most one entry for a group number, and every entry has tracked_times of
\* 1 or more.
C25_OneEntryPerGroup ==
    LET tracking_status == LogOf(dbx, group_status_log_file)
    IN  \A i, j \in DOMAIN tracking_status :
            /\ tracking_status[i].group_number = tracking_status[j].group_number
                 => i = j
            /\ tracking_status[i].tracked_times >= 1

\* a group tracked by two publish runs has its one entry
C25_Witness ==
    LET tracking_status == LogOf(dbx, group_status_log_file)
    IN  /\ Len(tracking_status) = 1
        /\ tracking_status[1].tracked_times = 2
        /\ lastRun.kind = "publish"

\* the entries of repost_group_tracking_status.json for group g, in order
StatusOf(d, g) ==
    SelectSeq(LogOf(d, group_status_log_file), LAMBDA e : e.group_number = g)

\* creation_time of the first entry of keyword_output_log.json with group
\* number g, "Unknown" when there is none
OriginalTimeInLog(d, g) ==
    IF EntriesOf(d, g) = {} THEN Unknown
    ELSE LogOf(d, keyword_output_log_file)[
             CHOOSE i \in EntriesOf(d, g) : \A j \in EntriesOf(d, g) : i <= j
         ].creation_time

\* what one call of record_group_tracking_status for g may change in d:
\* the store but for the status file is as it was, every entry is in its
\* place with its group number and original_creation_time, the entries of
\* the other groups are as they were, and when g had no entry the one entry
\* added is that of g with the original time taken from the collection log
CallFrame(d, after, g) ==
    LET old == LogOf(d, group_status_log_file)
        new == LogOf(after, group_status_log_file)
        had == \E i \in DOMAIN old : old[i].group_number = g
    IN  /\ SameExcept(d, after, {group_status_log_file})
        /\ Len(new) = IF had THEN Len(old) ELSE Len(old) + 1
        /\ \A i \in DOMAIN old :
             /\ new[i].group_number = old[i].group_number
             /\ new[i].original_creation_time = old[i].original_creation_time
             /\ old[i].group_number # g => new[i] = old[i]
        /\ ~had =>
             /\ new[Len(new)].group_number = g
             /\ new[Len(new)].original_creation_time = OriginalTimeInLog(d, g)

\* C26: a call of record_group_tracking_status for group g leaves the
\* status entries of the other groups as they are and keeps
\* original_creation_time of g when g has an entry; when g has none, the
\* entry it creates has the creation_time of the first collection-log entry
\* of g, or "Unknown" when the log has none.
C26_StatusFrame ==
    lastRun.kind = "status" =>
        CallFrame(lastRun.dbx, dbx, lastRun.group_number)

\* the call was for a group that had an entry, next to the entry of another
\* group, and whose first entry in the collection log has another
\* creation_time than the one in the status entry
C26_Witness ==
    /\ lastRun.kind = "status"
    /\ Len(LogOf(lastRun.dbx, group_status_log_file)) = 2
    /\ StatusOf(lastRun.dbx, lastRun.group_number) # <<>>
    /\ StatusOf(dbx, lastRun.group_number)[1].tracked_times = 2
    /\ OriginalTimeInLog(lastRun.dbx, lastRun.group_number) \notin
          {Unknown, StatusOf(dbx, lastRun.group_number)[1].original_creation_time}

\* ------------------------------------------------------------------ a crawl
\* the pagination of post id was started and no request of it is awaited
Terminated(id) ==
    /\ scheduler.sent[id] # <<>>
    /\ \A awaited \in scheduler.pending : awaited.post # id

\* the response is a page of reposts with this many entries or more
HasData(response, n) ==
    /\ is_json(response.text)
    /\ "data" \in DOMAIN json_loads(response.text)
    /\ Len(json_loads(response.text).data) >= n

EmptyPage(response) == HasData(response, 0) /\ ~HasData(response, 1)

\* C27 (order): the repost spider asks for the pages 1, 2, 3, ... of a post in
\* this order and without gaps; page p+1 only after a response for page p
\* with a data list that is not empty; nothing after the first response with
\* an empty data list.
C27_PagesInOrder ==
    scheduler.spider = "repost" =>
        \A id \in PostIds :
            LET sent == scheduler.sent[id]
                received == scheduler.received[id]
            IN  /\ \A p \in DOMAIN sent :
                     /\ sent[p].url = repostTimeline(url_to_mid(id), p)
                     /\ sent[p].meta.page_num = p
                     /\ p > 1 => /\ p - 1 \in DOMAIN received
                                 /\ received[p - 1].url = sent[p - 1].url
                                 /\ HasData(received[p - 1], 1)
                /\ \A p \in DOMAIN received :
                     EmptyPage(received[p]) => Len(sent) = p

\* C27: the order above, and the pagination of a post has terminated exactly
\* when a response with an empty data list has been received for it.
C27_TerminatesIffEmptyPage ==
    /\ C27_PagesInOrder
    /\ scheduler.spider = "repost" =>
          \A id \in PostIds :
              Terminated(id) <=>
                  \E p \in DOMAIN scheduler.received[id] :
                      EmptyPage(scheduler.received[id][p])

\* data.get('max_id', 0) of a response, 0 as well for one parse cannot read
MaxIdOf(response) ==
    IF HasData(response, 0) /\ "max_id" \in DOMAIN json_loads(response.text)
    THEN json_loads(response.text).max_id
    ELSE 0

\* C28: in the comment spider the k-th request of a post, k > 1, follows the
\* (k-1)-th response; its url is the source url of the post with one max_id
\* parameter, the max_id of that response, and its original_tweet_id is
\* that of the first request; a response whose max_id is 0 or missing is
\* followed by no request.
C28_OneMaxIdParameter ==
    scheduler.spider = "comment" =>
        \A id \in PostIds :
            LET sent == scheduler.sent[id]
                received == scheduler.received[id]
            IN  /\ \A k \in DOMAIN sent :
                     k > 1 =>
                        /\ k - 1 \in DOMAIN received
                        /\ sent[k].url.api = "buildComments"
                        /\ sent[k].url.id = sent[1].url.id
                        /\ sent[k].url.max_id = <<Dec(MaxIdOf(received[k - 1]))>>
                        /\ sent[k].meta.original_tweet_id =
                              sent[1].meta.original_tweet_id
                /\ \A k \in DOMAIN received :
                     MaxIdOf(received[k]) = 0 => Len(sent) = k

\* a post with two follow-up requests, for different max_id, and then a
\* response with max_id 0
C28_Witness ==
    /\ scheduler.spider = "comment"
    /\ \E id \in PostIds :
         /\ Len(scheduler.sent[id]) = 3
         /\ scheduler.sent[id][1].url = buildComments(url_to_mid(id))
         /\ scheduler.sent[id][2].url.max_id # scheduler.sent[id][3].url.max_id
         /\ Len(scheduler.received[id]) = 3
         /\ "max_id" \in DOMAIN json_loads(scheduler.received[id][3].text)
         /\ Terminated(id)
====
